---- MODULE Spec2Model ----
(***************************************************************************)
(* The LuxuryTree component (src/unnamed/part_000) and its math helpers    *)
(* (src/utils/math.ts) as a state machine.                                 *)
(*                                                                         *)
(* Numbers are exact rationals <<n, d>> in lowest terms with d > 0: the    *)
(* arithmetic of the source is modelled without IEEE-754 rounding.  The    *)
(* transcendental functions of the samplers (cos, sin, acos, cbrt, pow)    *)
(* are computed exactly, on the random draws for which their value is      *)
(* rational.                                                               *)
(***************************************************************************)
EXTENDS Integers, Sequences, FiniteSets, TLC

(***************************************************************************)
(* Bounds of the model.                                                    *)
(***************************************************************************)
FOLIAGE_COUNT == 2
LIGHTS_COUNT == 1
ORNAMENT_COUNT == 1
NumSeeds == 2
MaxFrames == 2
MaxHoldFrames == 4

TOTAL_PARTICLES == FOLIAGE_COUNT + LIGHTS_COUNT

(***************************************************************************)
(* Exact rational arithmetic: the JavaScript number operations.            *)
(***************************************************************************)
Abs(n) == IF n < 0 THEN -n ELSE n

RECURSIVE GCD(_, _)
GCD(a, b) == IF b = 0 THEN a ELSE GCD(b, a % b)

Rat(n, d) ==
    LET g == GCD(Abs(n), Abs(d))
        s == IF d < 0 THEN -1 ELSE 1
    IN  <<(s * n) \div g, (s * d) \div g>>

Num(n) == <<n, 1>>
Zero == Num(0)
One == Num(1)

Add(a, b) ==
    LET g == GCD(a[2], b[2])
    IN  Rat(a[1] * (b[2] \div g) + b[1] * (a[2] \div g), (a[2] \div g) * b[2])

Neg(a) == <<-a[1], a[2]>>
Sub(a, b) == Add(a, Neg(b))

Mul(a, b) ==
    LET g1 == GCD(Abs(a[1]), b[2])
        g2 == GCD(Abs(b[1]), a[2])
        h1 == IF g1 = 0 THEN 1 ELSE g1
        h2 == IF g2 = 0 THEN 1 ELSE g2
    IN  Rat((a[1] \div h1) * (b[1] \div h2), (a[2] \div h2) * (b[2] \div h1))

Div(a, b) == Mul(a, IF b[1] < 0 THEN <<-b[2], -b[1]>> ELSE <<b[2], b[1]>>)

Le(a, b) == Sub(a, b)[1] <= 0
Lt(a, b) == Sub(a, b)[1] < 0

\* x lies between a and b, ends included, whichever of a and b is smaller
Between(x, a, b) == (Le(a, x) /\ Le(x, b)) \/ (Le(b, x) /\ Le(x, a))

(***************************************************************************)
(* src/utils/math.ts                                                       *)
(***************************************************************************)
\* lerp with the (1 - t) weight dropped from start
lerpNoComplement(start, end, t) == Add(start, Mul(end, t))

lerp(start, end, t) == Add(Mul(start, Sub(One, t)), Mul(end, t))

Vec3(x, y, z) == [x |-> x, y |-> y, z |-> z]

\* the exact k-th root of a natural number that is a perfect k-th power
IPow(b, k) == IF k = 0 THEN 1 ELSE IF k = 1 THEN b ELSE IF k = 2 THEN b * b
              ELSE IF k = 3 THEN b * b * b ELSE IF k = 4 THEN b * b * b * b
              ELSE b * b * b * b * b
IRoot(n, k) == CHOOSE r \in 0..n : IPow(r, k) = n
Root(q, k) == <<IRoot(q[1], k), IRoot(q[2], k)>>

\* Math.sqrt, Math.cbrt and Math.pow(x, 0.8), where their value is rational
Sqrt(q) == Root(q, 2)
Cbrt(q) == Root(q, 3)
Pow08(q) == LET r == Root(q, 5) IN <<IPow(r[1], 4), IPow(r[2], 4)>>

\* an angle theta, held as the point (cos theta, sin theta) of the unit circle
Angle(c, s) == [c |-> c, s |-> s]
Cos(theta) == theta.c
Sin(theta) == theta.s

\* getRandomSpherePoint; rnd holds the three Math.random() draws in call order:
\* u as the angle 2 * PI * u, then v and the radial draw w
getRandomSpherePoint(radius, rnd) ==
    LET theta == rnd.u
        cosPhi == Sub(Mul(Num(2), rnd.v), One)
        sinPhi == Sqrt(Sub(One, Mul(cosPhi, cosPhi)))
        r == Mul(Cbrt(rnd.w), radius)
    IN  Vec3(Mul(Mul(r, sinPhi), Cos(theta)),
             Mul(Mul(r, sinPhi), Sin(theta)),
             Mul(r, cosPhi))

\* getConePoint with the 0.6 scale of the radial noise dropped
getConePointNoScale(height, radiusBase, yOffset, rnd) ==
    LET y == Mul(rnd.h, height)
        taper == Pow08(Sub(One, Div(y, height)))
        actualR == Mul(radiusBase, taper)
        r == Mul(actualR, Add(Rat(2, 5), rnd.f))
    IN  Vec3(Mul(r, Cos(rnd.theta)), Add(y, yOffset), Mul(r, Sin(rnd.theta)))

\* getConePoint; rnd holds the three Math.random() draws in call order:
\* h (height fraction), theta (the angle Math.random() * 2 * PI), f (radial noise)
getConePoint(height, radiusBase, yOffset, rnd) ==
    LET y == Mul(rnd.h, height)
        taper == Pow08(Sub(One, Div(y, height)))
        actualR == Mul(radiusBase, taper)
        r == Mul(actualR, Add(Rat(2, 5), Mul(rnd.f, Rat(3, 5))))
    IN  Vec3(Mul(r, Cos(rnd.theta)), Add(y, yOffset), Mul(r, Sin(rnd.theta)))

(***************************************************************************)
(* Math.random(): run `seed` of the component yields a fixed sequence of   *)
(* draws; draw number k is one of four outcomes, and each call site reads  *)
(* the outcome as a value of [0, 1) on which its computation is exact.     *)
(***************************************************************************)
Seeds == 0..(NumSeeds - 1)
Roll(seed, k) == (((seed + 1) * (k + 1) + (k \div 4)) % 4) + 1

UnitDraws == <<Zero, Rat(1, 4), Rat(1, 2), Rat(3, 4)>>
HeightDraws == <<Zero, Rat(31, 32), Rat(1023, 1024), Rat(31, 32)>>
TurnDraws == <<Angle(One, Zero), Angle(Zero, One),
               Angle(Neg(One), Zero), Angle(Zero, Neg(One))>>
PolarDraws == <<Rat(1, 2), Zero, Rat(1, 10), Rat(9, 10)>>
RadialDraws == <<Zero, Rat(1, 8), Rat(27, 64), Rat(1, 64)>>

random(seed, k) == UnitDraws[Roll(seed, k)]
coneDraws(seed, k) ==
    [h |-> HeightDraws[Roll(seed, k)],
     theta |-> TurnDraws[Roll(seed, k + 1)],
     f |-> UnitDraws[Roll(seed, k + 2)]]
sphereDraws(seed, k) ==
    [u |-> TurnDraws[Roll(seed, k)],
     v |-> PolarDraws[Roll(seed, k + 1)],
     w |-> RadialDraws[Roll(seed, k + 2)]]

(***************************************************************************)
(* src/unnamed/part_000: the LuxuryTree component.                         *)
(***************************************************************************)
VARIABLES
    phase,              \* "unmounted" until the component has rendered, then "mounted"
    particleData,       \* treePositions, chaosPositions, colors, sizes, isLight
    ornamentTargets,    \* tree and chaos target of every ornament
    starTargets,        \* tree and chaos target of the star
    instanceColor,      \* colour of every ornament instance
    currentPos,         \* smoothed position of every ornament
    currentStarPos,     \* smoothed position of the star
    starMesh,           \* position and rotation of the star mesh
    instanceMatrix,     \* position and scale of every ornament instance
    uniforms,           \* uProgress and uTime of the shader material
    chaosLevel,         \* store: the current blend
    targetChaosLevel,   \* store: the blend asked for
    elapsedTime,        \* state.clock.elapsedTime
    delta,              \* the delta the last frame callback was called with
    frames,             \* number of frame callbacks run
    coneArgs,           \* arguments and draws of the last getConePoint call checked
    conePoint           \* its result

vars == <<phase, particleData, ornamentTargets, starTargets, instanceColor,
          currentPos, currentStarPos, starMesh, instanceMatrix, uniforms,
          chaosLevel, targetChaosLevel, elapsedTime, delta, frames,
          coneArgs, conePoint>>

static == <<particleData, ornamentTargets, starTargets, instanceColor>>
coneVars == <<coneArgs, conePoint>>

Particles == 0..(TOTAL_PARTICLES - 1)
Ornaments == 0..(ORNAMENT_COUNT - 1)
Origin == Vec3(Zero, Zero, Zero)

\* the light test of the particle loop, off by one
isLightIndexAfter(i) == i > FOLIAGE_COUNT

\* the light test of the particle loop
isLightIndex(i) == i >= FOLIAGE_COUNT

\* the particleData useMemo; particle i consumes draws 8 * i .. 8 * i + 7
buildParticleData(seed) ==
    [treePositions |->
        [i \in Particles |->
            getConePoint(Num(14), Rat(11, 2), Num(-7), coneDraws(seed, 8 * i))],
     chaosPositions |->
        [i \in Particles |->
            getRandomSpherePoint(Num(18), sphereDraws(seed, 8 * i + 3))],
     colors |->
        [i \in Particles |->
            IF isLightIndex(i)
            THEN IF Lt(Rat(1, 2), random(seed, 8 * i + 6))
                 THEN "warmWhite" ELSE "brightGold"
            ELSE IF Lt(Rat(7, 10), random(seed, 8 * i + 6))
                 THEN "emerald" ELSE "darkGreen"],
     sizes |->
        [i \in Particles |->
            IF isLightIndex(i)
            THEN Add(Mul(random(seed, 8 * i + 7), Rat(2, 5)), Rat(3, 10))
            ELSE Add(Mul(random(seed, 8 * i + 7), Rat(1, 4)), Rat(1, 10))],
     isLight |->
        [i \in Particles |-> IF isLightIndex(i) THEN 1 ELSE 0]]

\* first draw after the particle loop
ornamentBase == 8 * TOTAL_PARTICLES

\* the ornamentTargets / starTargets useMemo
buildOrnamentTargets(seed) ==
    [tree |->
        [i \in Ornaments |->
            getConePoint(Rat(27, 2), Rat(26, 5), Rat(-34, 5),
                         coneDraws(seed, ornamentBase + 6 * i))],
     chaos |->
        [i \in Ornaments |->
            getRandomSpherePoint(Num(22), sphereDraws(seed, ornamentBase + 6 * i + 3))]]

buildStarTargets(seed) ==
    [tree |-> Vec3(Zero, Rat(15, 2), Zero),
     chaos |-> getRandomSpherePoint(Num(25),
                   sphereDraws(seed, ornamentBase + 6 * ORNAMENT_COUNT))]

\* the useLayoutEffect that colours the ornaments
buildInstanceColor(seed) ==
    [i \in Ornaments |->
        LET r == random(seed, ornamentBase + 6 * ORNAMENT_COUNT + 3 + i)
        IN  IF Lt(Rat(1, 2), r) THEN "gold"
            ELSE IF Lt(Rat(1, 5), r) THEN "red" ELSE "silver"]

(***************************************************************************)
(* Inputs.                                                                 *)
(***************************************************************************)
\* frame deltas, in seconds: negative, zero, below and at 1/4, and a long frame
Deltas == {Rat(-1, 8), Zero, Rat(1, 8), Rat(1, 4), One}
NonNegativeDeltas == {d \in Deltas : Le(Zero, d)}
PositiveDeltas == {d \in Deltas : Lt(Zero, d)}
\* values the store's target is set to
TargetLevels == {Zero, Rat(1, 2), One, Rat(3, 2)}
UnitTargetLevels == {t \in TargetLevels : Le(Zero, t) /\ Le(t, One)}

lerp3(a, b, t) == Vec3(lerp(a.x, b.x, t), lerp(a.y, b.y, t), lerp(a.z, b.z, t))

noCone == [height |-> One, radiusBase |-> Zero, yOffset |-> Zero,
           rnd |-> [h |-> Zero, theta |-> Angle(One, Zero), f |-> Zero]]

Init ==
    /\ phase = "unmounted"
    /\ particleData = [treePositions |-> <<>>, chaosPositions |-> <<>>,
                       colors |-> <<>>, sizes |-> <<>>, isLight |-> <<>>]
    /\ ornamentTargets = [tree |-> <<>>, chaos |-> <<>>]
    /\ starTargets = [tree |-> Origin, chaos |-> Origin]
    /\ instanceColor = <<>>
    /\ currentPos = <<>>
    /\ currentStarPos = Origin
    /\ starMesh = [position |-> Origin, rotation |-> [y |-> Zero, z |-> Zero]]
    /\ instanceMatrix = <<>>
    /\ uniforms = [uProgress |-> Zero, uTime |-> Zero]
    /\ chaosLevel = Zero
    /\ targetChaosLevel = Zero
    /\ elapsedTime = Zero
    /\ delta = Zero
    /\ frames = 0
    /\ coneArgs = noCone
    /\ conePoint = Origin

\* the first render of LuxuryTree and its layout effect
Render(seed) ==
    /\ phase = "unmounted"
    /\ phase' = "mounted"
    /\ particleData' = buildParticleData(seed)
    /\ ornamentTargets' = buildOrnamentTargets(seed)
    /\ starTargets' = buildStarTargets(seed)
    /\ instanceColor' = buildInstanceColor(seed)
    /\ currentPos' = [i \in Ornaments |-> Origin]
    /\ currentStarPos' = Origin
    /\ instanceMatrix' = [i \in Ornaments |-> [position |-> Origin, scale |-> One]]
    /\ UNCHANGED <<starMesh, uniforms, chaosLevel, targetChaosLevel, elapsedTime,
                   delta, frames, coneVars>>

\* the store's target is set from outside the component
SetTargetChaosLevel(t) ==
    /\ targetChaosLevel' = t
    /\ UNCHANGED <<phase, static, currentPos, currentStarPos, starMesh,
                   instanceMatrix, uniforms, chaosLevel, elapsedTime, delta,
                   frames, coneVars>>

\* the store's setChaosLevel
setChaosLevel(v) == chaosLevel' = v

\* a frame that regenerates the ornament targets, as a render without memo would
regenerated ==
    /\ \E seed \in Seeds : ornamentTargets' = buildOrnamentTargets(seed)
    /\ UNCHANGED <<particleData, starTargets, instanceColor>>

\* the memoised construction data: the frame callback only reads it
memoised == UNCHANGED static

\* the blend of the frame before, in place of the one just computed
staleChaos(currentChaos, newChaos) == currentChaos

\* the blend that steps 1 to 3 of the frame callback read
frameChaos(currentChaos, newChaos) == newChaos

\* the useFrame callback, called with delta = dt
FrameStep(dt) ==
    /\ phase = "mounted"
    /\ LET currentChaos == chaosLevel
           newChaos == lerp(currentChaos, targetChaosLevel, Mul(dt, Num(2)))
           used == frameChaos(currentChaos, newChaos)
           time == Add(elapsedTime, dt)
           sTarget == lerp3(starTargets.tree, starTargets.chaos, used)
           star == lerp3(currentStarPos, sTarget, Mul(dt, Num(4)))
           pos == [i \in Ornaments |->
                     lerp3(currentPos[i],
                           lerp3(ornamentTargets.tree[i], ornamentTargets.chaos[i], used),
                           Mul(dt, Num(4)))]
           scale == lerp(Rat(7, 20), Rat(1, 10), used)
       IN  /\ setChaosLevel(newChaos)
           /\ elapsedTime' = time
           /\ uniforms' = [uProgress |-> used, uTime |-> time]
           /\ currentStarPos' = star
           /\ starMesh' = [position |-> star,
                           rotation |-> [y |-> Add(starMesh.rotation.y, dt),
                                         z |-> Add(starMesh.rotation.z,
                                                   Mul(dt, Rat(1, 2)))]]
           /\ currentPos' = pos
           /\ instanceMatrix' = [i \in Ornaments |->
                                    [position |-> pos[i], scale |-> scale]]
    /\ delta' = dt
    /\ frames' = frames + 1
    /\ memoised
    /\ UNCHANGED <<phase, targetChaosLevel, coneVars>>

Frame(dt) == frames < MaxFrames /\ FrameStep(dt)

Next ==
    \/ \E seed \in Seeds : Render(seed)
    \/ \E t \in TargetLevels : SetTargetChaosLevel(t)
    \/ \E dt \in Deltas : Frame(dt)

Spec == Init /\ [][Next]_vars

(***************************************************************************)
(* The component driven as its interface states: delta >= 0 and a target   *)
(* in [0, 1].                                                              *)
(***************************************************************************)
NextNominal ==
    \/ \E seed \in Seeds : Render(seed)
    \/ \E t \in UnitTargetLevels : SetTargetChaosLevel(t)
    \/ \E dt \in NonNegativeDeltas : Frame(dt)

SpecNominal == Init /\ [][NextNominal]_vars

(***************************************************************************)
(* The target held at 1.0 and every frame run with one fixed positive      *)
(* delta, from a mounted component and a blend in [0, 1].                  *)
(***************************************************************************)
StartLevels == {Zero, Rat(1, 4), Rat(1, 2), Rat(3, 4), One}

InitHold ==
    /\ phase = "mounted"
    /\ \E seed \in Seeds :
          /\ particleData = buildParticleData(seed)
          /\ ornamentTargets = buildOrnamentTargets(seed)
          /\ starTargets = buildStarTargets(seed)
          /\ instanceColor = buildInstanceColor(seed)
    /\ currentPos = [i \in Ornaments |-> Origin]
    /\ currentStarPos = Origin
    /\ starMesh = [position |-> Origin, rotation |-> [y |-> Zero, z |-> Zero]]
    /\ instanceMatrix = [i \in Ornaments |-> [position |-> Origin, scale |-> One]]
    /\ uniforms = [uProgress |-> Zero, uTime |-> Zero]
    /\ chaosLevel \in StartLevels
    /\ targetChaosLevel = One
    /\ elapsedTime = Zero
    /\ delta \in PositiveDeltas
    /\ frames = 0
    /\ coneArgs = noCone
    /\ conePoint = Origin

HoldFrame == frames < MaxHoldFrames /\ FrameStep(delta)

SpecHold == InitHold /\ [][HoldFrame]_vars

(***************************************************************************)
(* getConePoint on its own, over arguments and draws.                      *)
(***************************************************************************)
ConeHeights == {One, Num(14), Rat(27, 2)}
ConeRadii == {Zero, Rat(11, 2), Rat(26, 5)}
ConeOffsets == {Zero, Num(-7), Rat(-34, 5)}
HeightFractions == {Zero, Rat(31, 32), Rat(211, 243)}
ConeAngles == {Angle(One, Zero), Angle(Zero, One), Angle(Neg(One), Zero),
               Angle(Rat(3, 5), Rat(4, 5)), Angle(Rat(-4, 5), Rat(3, 5)),
               Angle(Rat(5, 13), Rat(-12, 13))}
NoiseFractions == {Zero, Rat(1, 2), Rat(3, 4)}

ConeInputs ==
    {[height |-> height, radiusBase |-> radiusBase, yOffset |-> yOffset,
      rnd |-> [h |-> h, theta |-> theta, f |-> f]] :
        height \in ConeHeights, radiusBase \in ConeRadii, yOffset \in ConeOffsets,
        h \in HeightFractions, theta \in ConeAngles, f \in NoiseFractions}

InitCone ==
    /\ phase = "sampling"
    /\ particleData = [treePositions |-> <<>>, chaosPositions |-> <<>>,
                       colors |-> <<>>, sizes |-> <<>>, isLight |-> <<>>]
    /\ ornamentTargets = [tree |-> <<>>, chaos |-> <<>>]
    /\ starTargets = [tree |-> Origin, chaos |-> Origin]
    /\ instanceColor = <<>>
    /\ currentPos = <<>>
    /\ currentStarPos = Origin
    /\ starMesh = [position |-> Origin, rotation |-> [y |-> Zero, z |-> Zero]]
    /\ instanceMatrix = <<>>
    /\ uniforms = [uProgress |-> Zero, uTime |-> Zero]
    /\ chaosLevel = Zero
    /\ targetChaosLevel = Zero
    /\ elapsedTime = Zero
    /\ delta = Zero
    /\ frames = 0
    /\ coneArgs \in ConeInputs
    /\ conePoint = Origin

\* one call of getConePoint on the arguments and draws drawn
SampleCone ==
    /\ phase = "sampling"
    /\ phase' = "sampled"
    /\ conePoint' = getConePoint(coneArgs.height, coneArgs.radiusBase,
                                 coneArgs.yOffset, coneArgs.rnd)
    /\ UNCHANGED <<coneArgs, static, currentPos, currentStarPos, starMesh,
                   instanceMatrix, uniforms, chaosLevel, targetChaosLevel,
                   elapsedTime, delta, frames>>

SpecCone == InitCone /\ [][SampleCone]_vars

(***************************************************************************)
(* Properties.                                                             *)
(***************************************************************************)
\* a step is a frame callback run
FrameRan == frames' = frames + 1

InUnit(x) == Le(Zero, x) /\ Le(x, One)
Clamp01(x) == IF Lt(x, Zero) THEN Zero ELSE IF Lt(One, x) THEN One ELSE x

Between3(p, a, b) ==
    Between(p.x, a.x, b.x) /\ Between(p.y, a.y, b.y) /\ Between(p.z, a.z, b.z)

\* the instantaneous targets at blend c
starTargetAt(c) == lerp3(starTargets.tree, starTargets.chaos, c)
ornamentTargetAt(i, c) == lerp3(ornamentTargets.tree[i], ornamentTargets.chaos[i], c)

\* C1: a frame with dt >= 0 never overshoots: the new chaosLevel lies between
\* the old one and targetChaosLevel, and every component of the star's and each
\* ornament's new currentPosition lies between its old value and its
\* instantaneous target.
C1_NoOvershoot ==
    [][(FrameRan /\ Le(Zero, delta')) =>
          /\ Between(chaosLevel', chaosLevel, targetChaosLevel)
          /\ Between3(currentStarPos', currentStarPos, starTargetAt(chaosLevel'))
          /\ \A i \in Ornaments :
                Between3(currentPos'[i], currentPos[i], ornamentTargetAt(i, chaosLevel'))
      ]_vars

\* C2: with every dt >= 0 and every target in [0, 1], the chaosLevel in the
\* store is in [0, 1] in every reachable state.
C2_ChaosLevelInUnit == InUnit(chaosLevel)

\* C3: with the target held at 1.0 and one fixed positive dt, chaosLevel never
\* decreases from one frame to the next.
C3_NonDecreasing == [][FrameRan => Le(chaosLevel, chaosLevel')]_vars

\* C4: a frame with dt < 0 leaves chaosLevel, every currentPosition and the
\* star's two rotation angles unchanged.
C4_NegativeDeltaNoOp ==
    [][(FrameRan /\ Lt(delta', Zero)) =>
          /\ UNCHANGED <<chaosLevel, currentPos, currentStarPos>>
          /\ starMesh'.rotation = starMesh.rotation
      ]_vars

\* C5: a frame uses the target clamped to [0, 1]: the new chaosLevel and the new
\* positions are those of a frame run with Clamp01(targetChaosLevel).  Stated
\* on the frames with 0 <= dt <= 1/4, whose two weights dt * 2.0 and dt * 4.0
\* are in [0, 1].
C5_TargetClamped ==
    [][(FrameRan /\ Le(Zero, delta') /\ Le(delta', Rat(1, 4))) =>
          LET c == lerp(chaosLevel, Clamp01(targetChaosLevel), Mul(delta', Num(2)))
          IN  /\ chaosLevel' = c
              /\ currentStarPos' =
                    lerp3(currentStarPos, starTargetAt(c), Mul(delta', Num(4)))
              /\ \A i \in Ornaments :
                    currentPos'[i] =
                        lerp3(currentPos[i], ornamentTargetAt(i, c), Mul(delta', Num(4)))
      ]_vars

\* chaosLevel is at its target and every currentPosition at its instantaneous target
AtFixedPoint ==
    /\ phase = "mounted"
    /\ chaosLevel = targetChaosLevel
    /\ currentStarPos = starTargetAt(chaosLevel)
    /\ \A i \in Ornaments : currentPos[i] = ornamentTargetAt(i, chaosLevel)

taperAt(yy, height) == Pow08(Sub(One, Div(yy, height)))
Sq(q) == Mul(q, q)

\* sqrt(p.x^2 + p.z^2) <= b for a bound b >= 0, compared after division by b
WithinRadius(p, b) ==
    IF b = Zero
    THEN p.x = Zero /\ p.z = Zero
    ELSE Le(Add(Sq(Div(p.x, b)), Sq(Div(p.z, b))), One)

\* C7: getConePoint returns a point with yOffset <= y <= yOffset + height whose
\* distance from the axis is at most radiusBase * taper(y - yOffset), and so
\* at most radiusBase.
C7_ConeInBounds ==
    phase = "sampled" =>
        LET a == coneArgs
            p == conePoint
            t == taperAt(Sub(p.y, a.yOffset), a.height)
        IN  /\ Le(a.yOffset, p.y)
            /\ Le(p.y, Add(a.yOffset, a.height))
            /\ InUnit(t)
            /\ WithinRadius(p, Mul(a.radiusBase, t))
            /\ WithinRadius(p, a.radiusBase)

\* a point sampled off both axes, part way up, with the largest radial draw
C7_Witness ==
    /\ phase = "sampled"
    /\ conePoint.x # Zero
    /\ conePoint.z # Zero
    /\ coneArgs.rnd.f = Rat(3, 4)
    /\ coneArgs.rnd.h = Rat(31, 32)
    /\ coneArgs.yOffset = Num(-7)

InRange(x, lo, hi) == Le(lo, x) /\ Lt(x, hi)

\* C8: after construction particle i is foliage (isLight 0, size in [0.1, 0.35))
\* exactly when i < FOLIAGE_COUNT and a light (isLight 1, size in [0.3, 0.7))
\* exactly when FOLIAGE_COUNT <= i < TOTAL_PARTICLES; LIGHTS_COUNT are lights.
C8_Partition ==
    phase = "mounted" =>
        /\ DOMAIN particleData.isLight = Particles
        /\ \A i \in Particles :
              /\ (i < FOLIAGE_COUNT) <=>
                    /\ particleData.isLight[i] = 0
                    /\ InRange(particleData.sizes[i], Rat(1, 10), Rat(7, 20))
              /\ (FOLIAGE_COUNT <= i /\ i < FOLIAGE_COUNT + LIGHTS_COUNT) <=>
                    /\ particleData.isLight[i] = 1
                    /\ InRange(particleData.sizes[i], Rat(3, 10), Rat(7, 10))
        /\ Cardinality({i \in Particles : particleData.isLight[i] = 1}) = LIGHTS_COUNT

\* constructed, with a light whose size a foliage particle could not have
C8_Witness ==
    /\ phase = "mounted"
    /\ \E i \in Particles :
          /\ particleData.isLight[i] = 1
          /\ Le(Rat(7, 20), particleData.sizes[i])
    /\ \E i \in Particles : particleData.isLight[i] = 0

\* C9: once constructed, particleData, the ornament and star targets and the
\* ornament colours never change: a frame changes none of them, nor the
\* target it reads from the store.
C9_StaticData ==
    [][/\ (phase = "mounted") => UNCHANGED static
       /\ FrameRan => UNCHANGED <<static, targetChaosLevel, phase>>
      ]_vars

\* two frames have run and moved the blend and the star, and the construction
\* data is still what the render built
C9_Witness ==
    /\ frames = 2
    /\ delta = Rat(1, 8)
    /\ Lt(Zero, chaosLevel) /\ Lt(chaosLevel, One)
    /\ currentStarPos # Origin
    /\ \E seed \in Seeds :
          /\ particleData = buildParticleData(seed)
          /\ ornamentTargets = buildOrnamentTargets(seed)
          /\ starTargets = buildStarTargets(seed)

\* C10: a frame computes the shader's progress, the ornament scale and every
\* instantaneous target from the chaosLevel it has just written to the store,
\* and each position becomes lerp(old, lerp(treeTarget, chaosTarget,
\* chaosLevel'), dt * 4.0).
C10_UsesNewChaosLevel ==
    [][FrameRan =>
          /\ uniforms'.uProgress = chaosLevel'
          /\ currentStarPos' =
                lerp3(currentStarPos, starTargetAt(chaosLevel'), Mul(delta', Num(4)))
          /\ \A i \in Ornaments :
                /\ currentPos'[i] =
                      lerp3(currentPos[i], ornamentTargetAt(i, chaosLevel'),
                            Mul(delta', Num(4)))
                /\ instanceMatrix'[i].scale = lerp(Rat(7, 20), Rat(1, 10), chaosLevel')
      ]_vars

\* a second frame has run from a blend that was already moving, so the blend
\* before it and the blend it wrote differ
C10_Witness ==
    /\ frames = 2
    /\ delta = Rat(1, 8)
    /\ elapsedTime = Rat(1, 4)
    /\ targetChaosLevel = One
    /\ uniforms.uProgress = chaosLevel
    /\ Lt(Zero, chaosLevel) /\ Lt(chaosLevel, One)
    /\ \A i \in Ornaments :
          instanceMatrix[i].scale = lerp(Rat(7, 20), Rat(1, 10), chaosLevel)
====
